---- MODULE Spec2Model ----
(***************************************************************************)
(* Model of suite2p/io/server.py: ssh_connect (the bounded retry loop) and *)
(* send_jobs (per-plane dispatch of data, descriptors and batch jobs to a  *)
(* remote host).  Strings are sequences of one-character strings, so that  *)
(* separators, digits and path components are what the code sees.         *)
(***************************************************************************)
EXTENDS Integers, Sequences, FiniteSets, TLC

VARIABLES
    os_sep,        \* os.sep of the local machine: "/" or "\\"
    save_folder,   \* send_jobs(save_folder=...): the local save folder, a string
    local_root,    \* send_jobs(local_root=...): a string
    server_root,   \* send_jobs(server_root=...): a string
    mem_request_multiplier, \* send_jobs(mem_request_multiplier=...): a ratio [num, den]
    mirrored,      \* environment: the remote namespace is visible at the same path locally
    verbose,       \* ssh_connect(verbose=...)
    i,             \* ssh_connect: the loop counter i
    cpc,           \* ssh_connect: position in the retry loop
    attempts,      \* ssh_connect: number of ssh.connect calls made
    sleeps,        \* ssh_connect: number of time.sleep(2) calls made
    lastOutcome,   \* ssh_connect: outcome of the latest ssh.connect call
    listing,       \* local file system: the folder names under save_folder
    pc,            \* send_jobs: position
    run,           \* number of send_jobs calls started
    faults,        \* number of environment failures injected so far
    pdirs,         \* send_jobs: natsorted(glob.glob(save_folder + "/*/")), as folder names
    k,             \* send_jobs: loop index into pdirs (1-based)
    ipl,           \* send_jobs: plane index of the current unit
    op,            \* send_jobs: the descriptor being rewritten (a dict)
    fast_disk_orig,\* send_jobs: Path(op["fast_disk"]) as loaded, as path parts
    copy,          \* send_jobs: the copy flag
    remote_home,   \* send_jobs: answer of `echo $HOME`
    bin_size,      \* send_jobs: os.path.getsize(...) / 1e6, kept as the number of bytes
    jobs,          \* history: the batch submissions accepted by the remote host, in order
    localOps,      \* local file system: folder name -> content of its ops.npy
    remoteDirs,    \* remote file system: set of directories (path strings)
    remoteFiles,   \* remote file system: data files, path string -> local source parts
    remoteOps,     \* remote file system: descriptor files, path string -> content
    trace          \* history: the remote and local operations performed, in order

argVars == <<save_folder, local_root, server_root, mem_request_multiplier>>

vars == <<os_sep, mirrored, argVars, verbose, i, cpc, attempts, sleeps, lastOutcome,
          listing, pc, run, faults, pdirs, k, ipl, op, fast_disk_orig, copy, remote_home,
          bin_size, jobs, localOps, remoteDirs, remoteFiles, remoteOps, trace>>

connVars == <<verbose, i, cpc, attempts, sleeps, lastOutcome>>
jobVars == <<argVars, listing, pc, run, faults, pdirs, k, ipl, op, fast_disk_orig, copy,
             remote_home, bin_size, jobs, localOps, remoteDirs, remoteFiles, remoteOps, trace>>

(***************************************************************************)
(* Bounds of the model.                                                    *)
(***************************************************************************)
MaxRuns == 2
MaxFaults == 1
MaxMB == 2
MaxHalves == 5

(***************************************************************************)
(* Program constants.                                                      *)
(***************************************************************************)
MaxAttempts == 30
PrefixLen == 5
BytesPerMB == 1000000

(***************************************************************************)
(* Characters and strings.                                                 *)
(***************************************************************************)
Digits == <<"0","1","2","3","4","5","6","7","8","9">>

IsDigit(c) == \E d \in 1..10 : Digits[d] = c

DigitVal(c) == (CHOOSE d \in 1..10 : Digits[d] = c) - 1

\* Code-point order of the characters that occur in the folder names of the model.
CharOrder == <<"-", ".", "/", "0","1","2","3","4","5","6","7","8","9", "\\", "_",
               "a","b","c","d","e","f","g","h","i","j","k","l","m","n","o","p",
               "q","r","s","t","u","v","w","x","y","z">>

Code(c) == CHOOSE n \in 1..Len(CharOrder) : CharOrder[n] = c

RECURSIVE DecVal(_)
DecVal(s) ==
    IF s = <<>> THEN 0
    ELSE 10 * DecVal(SubSeq(s, 1, Len(s) - 1)) + DigitVal(s[Len(s)])

\* int(s) of Python on the model's alphabet: an optional sign, then one or more
\* decimal digits; anything else raises ValueError (ok = FALSE).
IntAccepts(s) ==
    LET body == IF Len(s) > 0 /\ s[1] \in {"-", "+"} THEN Tail(s) ELSE s
    IN  Len(body) > 0 /\ \A n \in 1..Len(body) : IsDigit(body[n])

PyInt(s) ==
    LET neg  == Len(s) > 0 /\ s[1] = "-"
        body == IF Len(s) > 0 /\ s[1] \in {"-", "+"} THEN Tail(s) ELSE s
    IN  IF IntAccepts(s)
        THEN [ok |-> TRUE, val |-> IF neg THEN 0 - DecVal(body) ELSE DecVal(body)]
        ELSE [ok |-> FALSE, val |-> 0]

RECURSIVE DecStr(_)
DecStr(n) ==
    IF n < 10 THEN <<Digits[n + 1]>>
    ELSE DecStr(n \div 10) \o <<Digits[(n % 10) + 1]>>

\* "%d" % n
FmtD(n) == IF n < 0 THEN <<"-">> \o DecStr(0 - n) ELSE DecStr(n)

\* s[n:] of Python for n >= 0
Drop(s, n) == IF n >= Len(s) THEN <<>> ELSE SubSeq(s, n + 1, Len(s))

\* str.replace(os.sep, "/")
Replace(s, old, new) == [n \in 1..Len(s) |-> IF s[n] = old THEN new ELSE s[n]]

unix_path_str(s) == Replace(s, os_sep, "/")

(***************************************************************************)
(* pathlib: a Path is its tuple of parts; the root part is <<os_sep>>.     *)
(***************************************************************************)
IsSep(c) == c = "/" \/ (os_sep = "\\" /\ c = "\\")

RECURSIVE Components(_, _)
\* the non-empty components of s between separators; cur is the component being read
Components(s, cur) ==
    IF s = <<>> THEN (IF cur = <<>> THEN <<>> ELSE <<cur>>)
    ELSE IF IsSep(Head(s))
         THEN (IF cur = <<>> THEN <<>> ELSE <<cur>>) \o Components(Tail(s), <<>>)
         ELSE Components(Tail(s), cur \o <<Head(s)>>)

\* Path(s).parts
Parts(s) ==
    IF Len(s) > 0 /\ IsSep(s[1])
    THEN <<<<os_sep>>>> \o Components(s, <<>>)
    ELSE Components(s, <<>>)

RECURSIVE Join(_)
Join(p) ==
    IF p = <<>> THEN <<>>
    ELSE IF Len(p) = 1 THEN p[1]
    ELSE p[1] \o <<os_sep>> \o Join(Tail(p))

\* str(Path(*p))
Str(p) ==
    IF p = <<>> THEN <<".">>
    ELSE IF p[1] = <<os_sep>> THEN <<os_sep>> \o Join(Tail(p))
    ELSE Join(p)

\* unix_path(path) for a Path argument
unix_path(p) == unix_path_str(Str(p))

(***************************************************************************)
(* natsort.natsorted with the default key: a string is cut into text and   *)
(* unsigned-number chunks, text compared by code point, numbers by value,  *)
(* and a key that is a proper prefix of another sorts first.               *)
(***************************************************************************)
RECURSIVE TextRun(_)
TextRun(s) ==
    IF s = <<>> \/ IsDigit(Head(s)) THEN <<>> ELSE <<Head(s)>> \o TextRun(Tail(s))

RECURSIVE NumRun(_)
NumRun(s) ==
    IF s = <<>> \/ ~IsDigit(Head(s)) THEN <<>> ELSE <<Head(s)>> \o NumRun(Tail(s))

RECURSIVE TextLess(_, _)
TextLess(a, b) ==
    IF b = <<>> THEN FALSE
    ELSE IF a = <<>> THEN TRUE
    ELSE IF Head(a) # Head(b) THEN Code(Head(a)) < Code(Head(b))
    ELSE TextLess(Tail(a), Tail(b))

RECURSIVE NatLess(_, _)
NatLess(a, b) ==
    LET ta == TextRun(a)
        tb == TextRun(b)
        ra == Drop(a, Len(ta))
        rb == Drop(b, Len(tb))
        na == NumRun(ra)
        nb == NumRun(rb)
    IN  IF ta # tb THEN TextLess(ta, tb)
        ELSE IF ra = <<>> \/ rb = <<>> THEN ra = <<>> /\ rb # <<>>
        ELSE IF DecVal(na) # DecVal(nb) THEN DecVal(na) < DecVal(nb)
        ELSE NatLess(Drop(ra, Len(na)), Drop(rb, Len(nb)))

RECURSIVE natsorted(_)
\* the sorted sequence of a set of strings with pairwise different keys
natsorted(S) ==
    IF S = {} THEN <<>>
    ELSE LET m == CHOOSE x \in S : \A y \in S \ {x} : NatLess(x, y)
         IN  <<m>> \o natsorted(S \ {m})

(***************************************************************************)
(* ssh_connect: the retry loop.                                            *)
(***************************************************************************)
Outcomes == {"ok", "auth", "other"}

\* a variant of GiveUp that tests the counter one attempt too late
GiveUpLate(n) == n = MaxAttempts + 1

\* `if i == 30`
GiveUp(n) == n = MaxAttempts

\* a variant of ConnectResult without the authentication-specific handler
ConnectResultNoAuth(i0, outcome) ==
    IF outcome = "ok"
    THEN [i |-> i0, next |-> "connected", slept |-> FALSE]
    ELSE [i |-> i0 + 1, next |-> "check", slept |-> TRUE]

\* the try statement of one iteration: what one ssh.connect outcome leads to
ConnectResult(i0, outcome) ==
    IF outcome = "ok"
    THEN [i |-> i0, next |-> "connected", slept |-> FALSE]
    ELSE IF outcome = "auth"
    THEN [i |-> i0, next |-> "authfailed", slept |-> FALSE]
    ELSE [i |-> i0 + 1, next |-> "check", slept |-> TRUE]

\* top of the loop: the progress message
Announce ==
    /\ cpc = "loop"
    /\ cpc' = "try"
    /\ UNCHANGED <<os_sep, mirrored, verbose, i, attempts, sleeps, lastOutcome>>
    /\ UNCHANGED jobVars

\* one ssh.connect call and the handler of its outcome
TryConnect ==
    /\ cpc = "try"
    /\ \E outcome \in Outcomes :
         LET r == ConnectResult(i, outcome)
         IN  /\ lastOutcome' = outcome
             /\ attempts' = attempts + 1
             /\ i' = r.i
             /\ sleeps' = IF r.slept THEN sleeps + 1 ELSE sleeps
             /\ cpc' = r.next
    /\ UNCHANGED <<os_sep, mirrored, verbose>>
    /\ UNCHANGED jobVars

\* a variant of CheckLimit that never goes back to the top of the loop
CheckLimitStuck ==
    /\ cpc = "check"
    /\ cpc' = IF GiveUp(i) THEN "gaveup" ELSE "check"
    /\ UNCHANGED <<os_sep, mirrored, verbose, i, attempts, sleeps, lastOutcome>>
    /\ UNCHANGED jobVars

\* the test that ends the loop after the last allowed attempt
CheckLimit ==
    /\ cpc = "check"
    /\ cpc' = IF GiveUp(i) THEN "gaveup" ELSE "loop"
    /\ UNCHANGED <<os_sep, mirrored, verbose, i, attempts, sleeps, lastOutcome>>
    /\ UNCHANGED jobVars

\* The host as send_jobs meets it: `fails` transient failures, then `then` for good.
HostPlans == [fails : {0, 1, MaxAttempts - 1, MaxAttempts}, then : {"ok", "auth"}]

HostOutcome(plan, n) == IF n <= plan.fails THEN "other" ELSE plan.then

RECURSIVE RunConnect(_, _, _)
\* the final position of the loop entered with counter i0 at connect call n
RunConnect(plan, i0, n) ==
    LET r == ConnectResult(i0, HostOutcome(plan, n))
    IN  IF r.next # "check" THEN r.next
        ELSE IF GiveUp(r.i) THEN "gaveup"
        ELSE RunConnect(plan, r.i, n + 1)

\* ssh_connect(host, username, password) run to its end
ssh_connect(plan) == RunConnect(plan, 0, 1)

(***************************************************************************)
(* Names, arguments and the local inputs of send_jobs.                     *)
(***************************************************************************)
PlaneStr == <<"p","l","a","n","e">>
OpsNpy == <<"o","p","s",".","n","p","y">>
DataBin == <<"d","a","t","a",".","b","i","n">>
DataRawBin == <<"d","a","t","a","_","r","a","w",".","b","i","n">>
DataChan2RawBin == <<"d","a","t","a","_","c","h","a","n","2","_","r","a","w",".","b","i","n">>
DataRawChan2Bin == <<"d","a","t","a","_","r","a","w","_","c","h","a","n","2",".","b","i","n">>
DataChan2Bin == <<"d","a","t","a","_","c","h","a","n","2",".","b","i","n">>
RunScriptSh == <<"r","u","n","_","s","c","r","i","p","t",".","s","h">>
DotSuite2p == <<".","s","u","i","t","e","2","p">>
JobPrefix == <<"t","e","s","t","_","s","2","p">>
OutPrefix == <<"o","u","t">>
ErrorPrefix == <<"e","r","r","o","r">>
LogPrefix == <<"l","o","g">>
TxtSuffix == <<".","t","x","t">>
LogSuffix == <<".","l","o","g">>

\* the folder names the model draws the content of save_folder from
Plane1 == <<"p","l","a","n","e","1">>
Plane2 == <<"p","l","a","n","e","2">>
Plane10 == <<"p","l","a","n","e","1","0">>
PlaneMinus1 == <<"p","l","a","n","e","-","1">>
Combined == <<"c","o","m","b","i","n","e","d">>
Tmp == <<"t","m","p">>

Listings == {{Plane1}, {Plane2, Plane10}, {Plane2, PlaneMinus1}, {Combined}, {Plane1, Tmp}}

\* the optional keys of a descriptor: which of them the planes of a listing carry
Shapes == { {"fast_disk"},
            {"fast_disk", "reg_file_chan2"},
            {"fast_disk", "raw_file"},
            {"fast_disk", "raw_file", "raw_file_chan2", "reg_file_chan2"},
            {} }

Root == <<os_sep>>

\* the answer of the remote host to `echo $HOME`
HomeDir == <<"/", "h">>

\* the local staging directory (fast_disk) of a plane, as the pipeline wrote it
Staging(name) == <<Root, <<"f">>, name>>

\* the descriptor of a plane as the pipeline wrote it: local paths throughout
InputOps(name, shape) ==
    LET all == [ save_path0      |-> local_root,
                 save_folder     |-> Parts(save_folder)[Len(Parts(save_folder))],
                 save_path       |-> Str(Parts(save_folder) \o <<name>>),
                 ops_path        |-> Str(Parts(save_folder) \o <<name, OpsNpy>>),
                 reg_file        |-> Str(Staging(name) \o <<DataBin>>),
                 functional_chan |-> <<"1">>,
                 fast_disk       |-> Str(Staging(name)),
                 raw_file        |-> Str(Staging(name) \o <<DataRawBin>>),
                 raw_file_chan2  |-> Str(Staging(name) \o <<DataChan2RawBin>>),
                 reg_file_chan2  |-> Str(Staging(name) \o <<DataChan2Bin>>) ]
        keys == {"save_path0", "save_folder", "save_path", "ops_path", "reg_file",
                 "functional_chan"} \cup shape
    IN  [key \in keys |-> all[key]]

NoOps == [key \in {} |-> <<>>]

\* op[key] = value
SetKey(d, key, value) == (key :> value) @@ d

(***************************************************************************)
(* send_jobs: the path translation at the head of the function.            *)
(***************************************************************************)
nparts == Len(Parts(local_root))

\* Path(a) / Path(b): a rooted right operand replaces the left one
PathJoin(a, b) == IF b # <<>> /\ b[1] = Root THEN b ELSE a \o b

\* a variant of save_folder_server that cuts one component off whatever local_root is
save_folder_server_one == PathJoin(Parts(server_root), Drop(Parts(save_folder), 1))

\* Path(server_root) / Path(*Path(save_folder).parts[nparts:])
save_folder_server == PathJoin(Parts(server_root), Drop(Parts(save_folder), nparts))

save_path0_server == SubSeq(save_folder_server, 1, Len(save_folder_server) - 1)

save_folder_name == Parts(save_folder)[Len(Parts(save_folder))]

\* save_path0_server / save_folder_name / ("plane%d" % ipl)
save_path(n) == save_path0_server \o <<save_folder_name, PlaneStr \o FmtD(n)>>

\* pdir as glob returns it, and ops_path_orig
pdir(name) == save_folder \o <<os_sep>> \o name \o <<os_sep>>
ops_path_orig(name) == pdir(name) \o OpsNpy

run_script_path == <<<<"~">>, DotSuite2p, RunScriptSh>>

(***************************************************************************)
(* send_jobs: the steps.  A remote call either returns or raises; a raise  *)
(* is an environment failure, of which a behaviour has at most MaxFaults.  *)
(***************************************************************************)
Last(q) == q[Len(q)]

\* how a call ended: "ok", "raise", or for a stat also "enoent" and "ioerror"
Res(ok) == IF ok THEN "ok" ELSE "raise"

\* the folder of unit u of the current run, <<>> outside the loop
FolderOf(u) == IF u = 0 THEN <<>> ELSE Last(Parts(pdirs[u]))

Ev(r, u, kind, src, dst, res) ==
    [run |-> r, k |-> u, folder |-> FolderOf(u), kind |-> kind, src |-> src, dst |-> dst,
     res |-> res]

\* the folder name of the unit being processed: Path(pdir).parts[-1]
Folder == Last(Parts(pdirs[k]))

CanFail == faults < MaxFaults

\* a variant of After in which a raised exception is swallowed and the run goes on
AfterSwallow(ok, next) == next

\* No call in the loop body sits in a try statement of its own (mkdir is inside the
\* except handler): an exception ends the run, otherwise control moves on.
After(ok, next) == IF ok THEN next ELSE "exited"

envVars == <<os_sep, mirrored, listing, argVars>>
localVars == <<pdirs, k, ipl, op, fast_disk_orig, copy, remote_home, bin_size>>
remoteVars == <<remoteDirs, remoteFiles, remoteOps>>

\* send_jobs is called: the path translation, then ssh_connect
StartRun ==
    /\ pc \in {"idle", "done", "exited"}
    /\ run < MaxRuns
    /\ run' = run + 1
    /\ \E plan \in HostPlans :
         LET ok == ssh_connect(plan) = "connected"
         IN  /\ ok \/ CanFail
             /\ faults' = IF ok THEN faults ELSE faults + 1
             /\ pc' = IF ok THEN "chmod_home" ELSE "exited"
             /\ trace' = Append(trace, Ev(run + 1, 0, "connect", <<>>, <<>>, Res(ok)))
    /\ pdirs' = <<>>
    /\ k' = 0
    /\ ipl' = 0
    /\ op' = NoOps
    /\ fast_disk_orig' = <<>>
    /\ copy' = FALSE
    /\ remote_home' = <<>>
    /\ bin_size' = 0
    /\ UNCHANGED <<jobs, localOps>>
    /\ UNCHANGED <<envVars, remoteVars, connVars>>

\* ssh.exec_command("chmod 777 ~/")
ChmodHome ==
    /\ pc = "chmod_home"
    /\ \E ok \in BOOLEAN :
         /\ ok \/ CanFail
         /\ faults' = IF ok THEN faults ELSE faults + 1
         /\ pc' = IF ok THEN "open_sftp" ELSE "exited"
         /\ trace' = Append(trace, Ev(run, 0, "chmod_home", <<>>, <<>>, Res(ok)))
    /\ UNCHANGED <<run, jobs, localOps>>
    /\ UNCHANGED <<envVars, localVars, remoteVars, connVars>>

\* ftp_client = ssh.open_sftp()
OpenSftp ==
    /\ pc = "open_sftp"
    /\ \E ok \in BOOLEAN :
         /\ ok \/ CanFail
         /\ faults' = IF ok THEN faults ELSE faults + 1
         /\ pc' = IF ok THEN "put_script" ELSE "exited"
         /\ trace' = Append(trace, Ev(run, 0, "open_sftp", <<>>, <<>>, Res(ok)))
    /\ UNCHANGED <<run, jobs, localOps>>
    /\ UNCHANGED <<envVars, localVars, remoteVars, connVars>>

\* ftp_client.put(run_script_path, "run_script.sh")
PutScript ==
    /\ pc = "put_script"
    /\ \E ok \in BOOLEAN :
         /\ ok \/ CanFail
         /\ faults' = IF ok THEN faults ELSE faults + 1
         /\ pc' = IF ok THEN "chmod_script" ELSE "exited"
         /\ trace' = Append(trace, Ev(run, 0, "put_script", run_script_path, RunScriptSh, Res(ok)))
         /\ remoteFiles' = IF ok THEN (RunScriptSh :> run_script_path) @@ remoteFiles
                           ELSE remoteFiles
    /\ UNCHANGED <<run, jobs, localOps, remoteDirs, remoteOps>>
    /\ UNCHANGED <<envVars, localVars, connVars>>

\* ssh.exec_command("chmod 777 run_script.sh"), then pdirs = natsorted(glob.glob(...))
ChmodScript ==
    /\ pc = "chmod_script"
    /\ \E ok \in BOOLEAN :
         /\ ok \/ CanFail
         /\ faults' = IF ok THEN faults ELSE faults + 1
         /\ trace' = Append(trace, Ev(run, 0, "chmod_script", <<>>, RunScriptSh, Res(ok)))
         /\ pdirs' = IF ok THEN natsorted({pdir(name) : name \in listing}) ELSE pdirs
         /\ k' = IF ok THEN 1 ELSE k
         /\ pc' = IF ~ok THEN "exited"
                  ELSE IF listing = {} THEN "close_sftp" ELSE "unit"
    /\ UNCHANGED <<run, jobs, localOps, ipl, op, fast_disk_orig, copy, remote_home, bin_size>>
    /\ UNCHANGED <<envVars, remoteVars, connVars>>

\* a variant of RewriteHead that also resets a key send_jobs never assigns
RewriteHeadClobbering(d, n) ==
    LET d0 == SetKey(d, "functional_chan", <<"0">>)
        d1 == SetKey(d0, "save_path0", unix_path(save_path0_server))
        d2 == SetKey(d1, "save_folder", save_folder_name)
        d3 == SetKey(d2, "save_path", unix_path(save_path(n)))
        d4 == SetKey(d3, "fast_disk", unix_path(save_path(n)))
    IN  SetKey(d4, "ops_path", unix_path(save_path(n) \o <<OpsNpy>>))

\* the five keys every unit gets rewritten before the remote probe
RewriteHead(d, n) ==
    LET d1 == SetKey(d, "save_path0", unix_path(save_path0_server))
        d2 == SetKey(d1, "save_folder", save_folder_name)
        d3 == SetKey(d2, "save_path", unix_path(save_path(n)))
        d4 == SetKey(d3, "fast_disk", unix_path(save_path(n)))
    IN  SetKey(d4, "ops_path", unix_path(save_path(n) \o <<OpsNpy>>))

\* head of the loop body: the plane index, the descriptor, the first rewrites
BeginUnit ==
    /\ pc = "unit"
    /\ LET parsed == PyInt(Drop(Folder, PrefixLen))
           loaded == localOps[Folder]
       IN  IF ~parsed.ok \/ "fast_disk" \notin DOMAIN loaded
           THEN /\ pc' = "exited"
                /\ UNCHANGED <<ipl, op, fast_disk_orig, copy>>
           ELSE /\ pc' = "stat"
                /\ ipl' = parsed.val
                /\ fast_disk_orig' = Parts(loaded["fast_disk"])
                /\ op' = RewriteHead(loaded, parsed.val)
                /\ copy' = FALSE
    /\ UNCHANGED <<run, faults, jobs, localOps, trace, pdirs, k, remote_home, bin_size>>
    /\ UNCHANGED <<envVars, remoteVars, connVars>>

\* `except IOError`: the outcomes of ftp_client.stat the handler catches
CaughtByHandler(outcome) == outcome \in {"enoent", "ioerror"}

\* ftp_client.stat(op["save_path"]) inside the try statement
Stat ==
    /\ pc = "stat"
    /\ \E outcome \in {"ok", "enoent", "ioerror", "raise"} :
         /\ outcome = "ok" => op["save_path"] \in remoteDirs
         /\ outcome = "enoent" => op["save_path"] \notin remoteDirs
         /\ outcome \in {"ioerror", "raise"} => CanFail
         /\ faults' = IF outcome \in {"ioerror", "raise"} THEN faults + 1 ELSE faults
         /\ trace' = Append(trace, Ev(run, k, "stat", <<>>, op["save_path"], outcome))
         /\ pc' = IF outcome = "ok" THEN "primary"
                  ELSE IF CaughtByHandler(outcome) THEN "mkdir"
                  ELSE "exited"
    /\ UNCHANGED <<run, jobs, localOps>>
    /\ UNCHANGED <<envVars, localVars, remoteVars, connVars>>

\* the handler: ftp_client.mkdir(op["save_path"]); copy = True
Mkdir ==
    /\ pc = "mkdir"
    /\ \E ok \in BOOLEAN :
         /\ ok => op["save_path"] \notin remoteDirs
         /\ ok \/ CanFail \/ op["save_path"] \in remoteDirs
         /\ faults' = IF ok \/ op["save_path"] \in remoteDirs THEN faults ELSE faults + 1
         /\ trace' = Append(trace, Ev(run, k, "mkdir", <<>>, op["save_path"], Res(ok)))
         /\ remoteDirs' = IF ok THEN remoteDirs \cup {op["save_path"]} ELSE remoteDirs
         /\ copy' = ok
         /\ pc' = After(ok, "primary")
    /\ UNCHANGED <<run, jobs, localOps, pdirs, k, ipl, op, fast_disk_orig, remote_home, bin_size>>
    /\ UNCHANGED <<envVars, remoteFiles, remoteOps, connVars>>

IsPrefix(a, b) == Len(a) <= Len(b) /\ SubSeq(b, 1, Len(a)) = a

\* The local machine has a file at a path of the remote namespace only where it
\* sees the remote file system under the same path, and the file is there.
LocalHas(path) == mirrored /\ unix_path(path) \in DOMAIN remoteFiles

\* ftp_client.put(localpath, ...) opens localpath: the staging directories hold the
\* files the pipeline wrote, any other local path has what LocalHas finds there.
SourceExists(src) == (\E name \in listing : IsPrefix(Staging(name), src)) \/ LocalHas(src)

\* the descriptor after op["reg_file"] = ... and, with raw data, op["raw_file"] = ...
RewritePrimary(d, n) ==
    LET d1 == SetKey(d, "reg_file", unix_path(save_path(n) \o <<DataBin>>))
    IN  IF "raw_file" \in DOMAIN d
        THEN SetKey(d1, "raw_file", unix_path(save_path(n) \o <<DataRawBin>>))
        ELSE d1

\* a variant of PrimarySrc that takes the registered file whatever the descriptor says
PrimarySrcRegOnly(d, disk) == disk \o <<DataBin>>

\* the local file and the remote name of the primary data file
PrimarySrc(d, disk) ==
    IF "raw_file" \in DOMAIN d THEN disk \o <<DataRawBin>> ELSE disk \o <<DataBin>>

PrimaryDst(d) == IF "raw_file" \in DOMAIN d THEN d["raw_file"] ELSE d["reg_file"]

\* reg_file, then the raw or the registered data file of the unit
PutPrimary ==
    /\ pc = "primary"
    /\ LET d == RewritePrimary(op, ipl)
       IN  /\ op' = d
           /\ IF copy
              THEN \E ok \in BOOLEAN :
                     /\ ok => SourceExists(PrimarySrc(op, fast_disk_orig))
                     /\ ok \/ CanFail \/ ~SourceExists(PrimarySrc(op, fast_disk_orig))
                     /\ faults' = IF ok \/ ~SourceExists(PrimarySrc(op, fast_disk_orig))
                                  THEN faults ELSE faults + 1
                     /\ trace' = Append(trace, Ev(run, k, "put", PrimarySrc(op, fast_disk_orig),
                                                  PrimaryDst(d), Res(ok)))
                     /\ remoteFiles' =
                          IF ok THEN (PrimaryDst(d) :> PrimarySrc(op, fast_disk_orig)) @@ remoteFiles
                          ELSE remoteFiles
                     /\ pc' = After(ok, "secondary")
              ELSE /\ pc' = "secondary"
                   /\ UNCHANGED <<faults, trace, remoteFiles>>
    /\ UNCHANGED <<run, jobs, localOps, pdirs, k, ipl, fast_disk_orig, copy, remote_home, bin_size>>
    /\ UNCHANGED <<envVars, remoteDirs, remoteOps, connVars>>

\* the key of the secondary-channel file the branch taken looks for
SecondaryKey(d) == IF "raw_file" \in DOMAIN d THEN "raw_file_chan2" ELSE "reg_file_chan2"

HasSecondary(d) == SecondaryKey(d) \in DOMAIN d

RewriteSecondary(d, n) ==
    IF ~HasSecondary(d) THEN d
    ELSE IF "raw_file" \in DOMAIN d
    THEN SetKey(d, "raw_file_chan2", unix_path(save_path(n) \o <<DataChan2RawBin>>))
    ELSE SetKey(d, "reg_file_chan2", unix_path(save_path(n) \o <<DataChan2Bin>>))

SecondarySrc(d, disk) ==
    IF "raw_file" \in DOMAIN d THEN disk \o <<DataRawChan2Bin>> ELSE disk \o <<DataChan2Bin>>

\* the secondary-channel data file of the branch taken, when the descriptor has its key
PutSecondary ==
    /\ pc = "secondary"
    /\ LET d == RewriteSecondary(op, ipl)
       IN  /\ op' = d
           /\ IF copy /\ HasSecondary(op)
              THEN \E ok \in BOOLEAN :
                     /\ ok => SourceExists(SecondarySrc(op, fast_disk_orig))
                     /\ ok \/ CanFail \/ ~SourceExists(SecondarySrc(op, fast_disk_orig))
                     /\ faults' = IF ok \/ ~SourceExists(SecondarySrc(op, fast_disk_orig))
                                  THEN faults ELSE faults + 1
                     /\ trace' = Append(trace, Ev(run, k, "put", SecondarySrc(op, fast_disk_orig),
                                                  d[SecondaryKey(op)], Res(ok)))
                     /\ remoteFiles' =
                          IF ok THEN (d[SecondaryKey(op)] :> SecondarySrc(op, fast_disk_orig))
                                     @@ remoteFiles
                          ELSE remoteFiles
                     /\ pc' = After(ok, "save")
              ELSE /\ pc' = "save"
                   /\ UNCHANGED <<faults, trace, remoteFiles>>
    /\ UNCHANGED <<run, jobs, localOps, pdirs, k, ipl, fast_disk_orig, copy, remote_home, bin_size>>
    /\ UNCHANGED <<envVars, remoteDirs, remoteOps, connVars>>

\* np.save(ops_path_orig, op), then the upload of the descriptor when copy is set
SaveOps ==
    /\ pc = "save"
    /\ localOps' = [localOps EXCEPT ![Folder] = op]
    /\ IF copy
       THEN \E ok \in BOOLEAN :
              /\ ok \/ CanFail
              /\ faults' = IF ok THEN faults ELSE faults + 1
              /\ trace' = trace \o
                    << Ev(run, k, "save", <<>>, ops_path_orig(Folder), "ok"),
                       Ev(run, k, "put", Parts(ops_path_orig(Folder)), op["ops_path"], Res(ok)) >>
              /\ remoteOps' = IF ok THEN (op["ops_path"] :> op) @@ remoteOps ELSE remoteOps
              /\ pc' = After(ok, "getsize")
       ELSE /\ pc' = "getsize"
            /\ trace' = Append(trace, Ev(run, k, "save", <<>>, ops_path_orig(Folder), "ok"))
            /\ UNCHANGED <<faults, remoteOps>>
    /\ UNCHANGED <<run, jobs>>
    /\ UNCHANGED <<envVars, localVars, remoteDirs, remoteFiles, connVars>>

\* Path(op['fast_disk']) / 'data_raw.bin': the file os.path.getsize is asked about
SizedFile(d) == Parts(d["fast_disk"]) \o <<DataRawBin>>

\* environment: the size in bytes of a local file; the model gives every file a size
\* fixed by its name
FileBytes(path) == 1250000 * Len(Last(path))

\* bin_size = os.path.getsize(...): FileNotFoundError when the file is missing
GetSize ==
    /\ pc = "getsize"
    /\ trace' = Append(trace, Ev(run, k, "getsize", SizedFile(op), <<>>,
                                 Res(LocalHas(SizedFile(op)))))
    /\ pc' = After(LocalHas(SizedFile(op)), "home")
    /\ bin_size' = IF LocalHas(SizedFile(op)) THEN FileBytes(SizedFile(op)) ELSE bin_size
    /\ UNCHANGED <<run, faults, jobs, localOps>>
    /\ UNCHANGED <<pdirs, k, ipl, op, fast_disk_orig, copy, remote_home>>
    /\ UNCHANGED <<envVars, remoteVars, connVars>>

\* remote_home = ssh.exec_command('echo $HOME')[1].read()...
QueryHome ==
    /\ pc = "home"
    /\ \E ok \in BOOLEAN :
         /\ ok \/ CanFail
         /\ faults' = IF ok THEN faults ELSE faults + 1
         /\ trace' = Append(trace, Ev(run, k, "home", <<>>, <<>>, Res(ok)))
         /\ remote_home' = IF ok THEN HomeDir ELSE remote_home
         /\ pc' = After(ok, "bsub")
    /\ UNCHANGED <<run, jobs, localOps, pdirs, k, ipl, op, fast_disk_orig, copy, bin_size>>
    /\ UNCHANGED <<envVars, remoteVars, connVars>>

\* a variant of mem_request that counts only the bytes beyond the last whole megabyte
mem_request_remainder(m, bytes) ==
    (m.num * (bytes % BytesPerMB)) \div (m.den * BytesPerMB)

\* int(mem_request_multiplier * bin_size) with bin_size = bytes / 1e6: int() cuts the
\* fraction off, towards zero.  The ratio is exact here; for the multipliers and the
\* sizes of the model the floating-point quotient and product lie on the same side of
\* every integer as the exact ones.
mem_request(m, bytes) ==
    LET p == m.num * bytes
        q == m.den * BytesPerMB
    IN  IF p >= 0 THEN p \div q ELSE 0 - ((0 - p) \div q)

\* run_command, as the fields the f-string fills in
run_command(n, home, d, mem) ==
    [ J      |-> JobPrefix \o FmtD(n),
      o      |-> OutPrefix \o FmtD(n) \o TxtSuffix,
      e      |-> ErrorPrefix \o FmtD(n) \o LogSuffix,
      M      |-> FmtD(mem),
      script |-> home \o <<"/">> \o RunScriptSh,
      arg    |-> d["ops_path"],
      log    |-> LogPrefix \o FmtD(n) \o TxtSuffix ]

\* ssh.exec_command(run_command); print(stdout.readlines()[0]); then the next unit
Submit ==
    /\ pc = "bsub"
    /\ \E ok \in BOOLEAN :
         /\ ok \/ CanFail
         /\ faults' = IF ok THEN faults ELSE faults + 1
         /\ trace' = Append(trace, Ev(run, k, "bsub", <<>>, op["ops_path"], Res(ok)))
         /\ jobs' = IF ok
                    THEN Append(jobs, [run |-> run, k |-> k, folder |-> Folder, ipl |-> ipl,
                                       bytes |-> bin_size,
                                       cmd |-> run_command(ipl, remote_home, op,
                                                 mem_request(mem_request_multiplier,
                                                             bin_size))])
                    ELSE jobs
         /\ pc' = After(ok, IF k < Len(pdirs) THEN "unit" ELSE "close_sftp")
         /\ k' = IF ok /\ k < Len(pdirs) THEN k + 1 ELSE k
    /\ UNCHANGED <<run, localOps, pdirs, ipl, op, fast_disk_orig, copy, remote_home, bin_size>>
    /\ UNCHANGED <<envVars, remoteVars, connVars>>

\* ftp_client.close()
CloseSftp ==
    /\ pc = "close_sftp"
    /\ pc' = "close_ssh"
    /\ trace' = Append(trace, Ev(run, 0, "close_sftp", <<>>, <<>>, "ok"))
    /\ UNCHANGED <<run, faults, jobs, localOps>>
    /\ UNCHANGED <<envVars, localVars, remoteVars, connVars>>

\* a variant of CloseSsh that returns without closing the connection
CloseSshOmitted ==
    /\ pc = "close_ssh"
    /\ pc' = "done"
    /\ UNCHANGED <<run, faults, jobs, localOps, trace>>
    /\ UNCHANGED <<envVars, localVars, remoteVars, connVars>>

\* ssh.close()
CloseSsh ==
    /\ pc = "close_ssh"
    /\ pc' = "done"
    /\ trace' = Append(trace, Ev(run, 0, "close_ssh", <<>>, <<>>, "ok"))
    /\ UNCHANGED <<run, faults, jobs, localOps>>
    /\ UNCHANGED <<envVars, localVars, remoteVars, connVars>>

Under(dir) == {f \in DOMAIN remoteFiles : IsPrefix(dir \o <<"/">>, f)}
OpsUnder(dir) == {f \in DOMAIN remoteOps : IsPrefix(dir \o <<"/">>, f)}

\* Environment, between two runs: a working directory is removed on the remote host.
RemoteRemove ==
    /\ pc \in {"done", "exited"}
    /\ run < MaxRuns
    /\ CanFail
    /\ \E dir \in remoteDirs :
         /\ remoteDirs' = remoteDirs \ {dir}
         /\ remoteFiles' = [f \in DOMAIN remoteFiles \ Under(dir) |-> remoteFiles[f]]
         /\ remoteOps' = [f \in DOMAIN remoteOps \ OpsUnder(dir) |-> remoteOps[f]]
         /\ trace' = Append(trace, Ev(0, 0, "env_rmdir", <<>>, dir, "ok"))
    /\ faults' = faults + 1
    /\ UNCHANGED <<pc, run, jobs, localOps>>
    /\ UNCHANGED <<envVars, localVars, connVars>>

(***************************************************************************)
(* The specifications.                                                     *)
(***************************************************************************)
\* send_jobs, called up to MaxRuns times over the same local save folder
Init ==
    /\ os_sep \in {"/", "\\"}
    /\ mirrored \in BOOLEAN
    /\ local_root = Str(<<Root, <<"l">>>>)
    /\ save_folder = Str(<<Root, <<"l">>, <<"e">>>>)
    /\ server_root = <<"/", "r">>
    /\ mem_request_multiplier = [num |-> 2, den |-> 1]
    /\ listing \in Listings
    /\ \E shape \in Shapes : localOps = [name \in listing |-> InputOps(name, shape)]
    /\ verbose = TRUE
    /\ i = 0
    /\ cpc = "none"
    /\ attempts = 0
    /\ sleeps = 0
    /\ lastOutcome = "none"
    /\ pc = "idle"
    /\ run = 0
    /\ faults = 0
    /\ pdirs = <<>>
    /\ k = 0
    /\ ipl = 0
    /\ op = NoOps
    /\ fast_disk_orig = <<>>
    /\ copy = FALSE
    /\ remote_home = <<>>
    /\ bin_size = 0
    /\ jobs = <<>>
    /\ remoteDirs = {}
    /\ remoteFiles = NoOps
    /\ remoteOps = NoOps
    /\ trace = <<>>

Next ==
    \/ StartRun
    \/ ChmodHome
    \/ OpenSftp
    \/ PutScript
    \/ ChmodScript
    \/ BeginUnit
    \/ Stat
    \/ Mkdir
    \/ PutPrimary
    \/ PutSecondary
    \/ SaveOps
    \/ GetSize
    \/ QueryHome
    \/ Submit
    \/ CloseSftp
    \/ CloseSsh
    \/ RemoteRemove

Spec == Init /\ [][Next]_vars

\* ssh_connect, called on its own against a host that answers each attempt freely
InitConnect ==
    /\ os_sep = "/"
    /\ mirrored = FALSE
    /\ local_root = <<"/", "l">>
    /\ save_folder = <<"/", "l", "/", "e">>
    /\ server_root = <<"/", "r">>
    /\ mem_request_multiplier = [num |-> 2, den |-> 1]
    /\ listing = {}
    /\ localOps = NoOps
    /\ verbose \in BOOLEAN
    /\ i = 0
    /\ cpc = "loop"
    /\ attempts = 0
    /\ sleeps = 0
    /\ lastOutcome = "none"
    /\ pc = "none"
    /\ run = 0
    /\ faults = 0
    /\ pdirs = <<>>
    /\ k = 0
    /\ ipl = 0
    /\ op = NoOps
    /\ fast_disk_orig = <<>>
    /\ copy = FALSE
    /\ remote_home = <<>>
    /\ bin_size = 0
    /\ jobs = <<>>
    /\ remoteDirs = {}
    /\ remoteFiles = NoOps
    /\ remoteOps = NoOps
    /\ trace = <<>>

\* The path translation on its own: send_jobs at the head of its loop, for local roots,
\* remote roots and save folders of several depths; the history is not kept here.
LocalRoots == { Str(<<Root, <<"l">>>>), Str(<<Root, <<"l">>, <<"m">>>>) }

ServerRoots == { <<"/">>, <<"/", "r">>, <<"/", "r", "/", "s">> }

SaveFolders == { Str(<<Root, <<"l">>>>),
                 Str(<<Root, <<"l">>, <<"e">>>>),
                 Str(<<Root, <<"l">>, <<"m">>>>),
                 Str(<<Root, <<"l">>, <<"m">>, <<"e">>>>),
                 Str(<<Root, <<"l">>, <<"m">>, <<"e">>, <<"d">>>>),
                 Str(<<Root, <<"x">>, <<"e">>>>) }

InitPath ==
    /\ os_sep \in {"/", "\\"}
    /\ mirrored = FALSE
    /\ local_root \in LocalRoots
    /\ save_folder \in SaveFolders
    /\ server_root \in ServerRoots
    /\ mem_request_multiplier = [num |-> 2, den |-> 1]
    /\ listing \in {{Plane1}, {Plane2}, {Plane10}}
    /\ localOps = [name \in listing |-> InputOps(name, {"fast_disk"})]
    /\ verbose = TRUE
    /\ i = 0
    /\ cpc = "none"
    /\ attempts = 0
    /\ sleeps = 0
    /\ lastOutcome = "none"
    /\ pc = "unit"
    /\ run = 1
    /\ faults = 0
    /\ pdirs = natsorted({pdir(name) : name \in listing})
    /\ k = 1
    /\ ipl = 0
    /\ op = NoOps
    /\ fast_disk_orig = <<>>
    /\ copy = FALSE
    /\ remote_home = <<>>
    /\ bin_size = 0
    /\ jobs = <<>>
    /\ remoteDirs = {}
    /\ remoteFiles = NoOps
    /\ remoteOps = NoOps
    /\ trace = <<>>

NextPath ==
    \/ BeginUnit

SpecPath == InitPath /\ [][NextPath]_vars

\* The memory request on its own: the size measurement and the submission of the units
\* of one run, for multipliers in steps of one half (negative ones included) and file
\* sizes at and next to every half megabyte; the history is not kept here.
Multipliers == {[num |-> n, den |-> 2] : n \in (0 - 2)..MaxHalves}

Sizes == {s \in {q * (BytesPerMB \div 2) + d : q \in 0..(2 * MaxMB), d \in {0 - 1, 0, 1}} :
             s >= 0}

\* the descriptor of a unit as it stands when the size is taken
Rewritten(name, n) ==
    RewriteSecondary(RewritePrimary(RewriteHead(InputOps(name, {"fast_disk"}), n), n), n)

InitMem ==
    /\ os_sep = "/"
    /\ mirrored = TRUE
    /\ local_root = <<"/", "l">>
    /\ save_folder = <<"/", "l", "/", "e">>
    /\ server_root = <<"/", "r">>
    /\ mem_request_multiplier \in Multipliers
    /\ listing = {Plane2, Plane10}
    /\ localOps = [name \in listing |-> InputOps(name, {"fast_disk"})]
    /\ verbose = TRUE
    /\ i = 0
    /\ cpc = "none"
    /\ attempts = 0
    /\ sleeps = 0
    /\ lastOutcome = "none"
    /\ pc = "getsize"
    /\ run = 1
    /\ faults = 0
    /\ pdirs = natsorted({pdir(name) : name \in listing})
    /\ k = 1
    /\ ipl = 2
    /\ op = Rewritten(Plane2, 2)
    /\ fast_disk_orig = Staging(Plane2)
    /\ copy = FALSE
    /\ remote_home = HomeDir
    /\ bin_size = 0
    /\ jobs = <<>>
    /\ remoteDirs = {}
    /\ remoteFiles = NoOps
    /\ remoteOps = NoOps
    /\ trace = <<>>

\* bin_size = os.path.getsize(...) / 1e6 for a file of any size
MeasureAny ==
    /\ pc = "getsize"
    /\ \E s \in Sizes : bin_size' = s
    /\ pc' = "bsub"
    /\ UNCHANGED <<run, faults, jobs, localOps, trace>>
    /\ UNCHANGED <<pdirs, k, ipl, op, fast_disk_orig, copy, remote_home>>
    /\ UNCHANGED <<envVars, remoteVars, connVars>>

\* the submission of the unit, then the next unit up to its size measurement
SubmitSized ==
    /\ pc = "bsub"
    /\ jobs' = Append(jobs, [run |-> run, k |-> k, folder |-> Folder, ipl |-> ipl,
                             bytes |-> bin_size,
                             cmd |-> run_command(ipl, remote_home, op,
                                       mem_request(mem_request_multiplier, bin_size))])
    /\ IF k < Len(pdirs)
       THEN /\ k' = k + 1
            /\ ipl' = PyInt(Drop(FolderOf(k + 1), PrefixLen)).val
            /\ op' = Rewritten(FolderOf(k + 1), PyInt(Drop(FolderOf(k + 1), PrefixLen)).val)
            /\ fast_disk_orig' = Staging(FolderOf(k + 1))
            /\ pc' = "getsize"
       ELSE /\ pc' = "close_sftp"
            /\ UNCHANGED <<k, ipl, op, fast_disk_orig>>
    /\ UNCHANGED <<run, faults, localOps, trace, pdirs, copy, remote_home, bin_size>>
    /\ UNCHANGED <<envVars, remoteVars, connVars>>

NextMem ==
    \/ MeasureAny
    \/ SubmitSized

SpecMem == InitMem /\ [][NextMem]_vars

NextConnect ==
    \/ Announce
    \/ TryConnect
    \/ CheckLimit

SpecConnect == InitConnect /\ [][NextConnect]_vars

\* ssh_connect where every call returns: ssh.connect comes back with one of the three
\* outcomes, time.sleep(2) ends, and the interpreter goes on to the next statement
FairConnect == SpecConnect /\ WF_vars(NextConnect)

(***************************************************************************)
(* Vocabulary of the properties.                                           *)
(***************************************************************************)
\* the folder of the u-th unit in processing order
UnitFolder(u) == Last(Parts(natsorted({pdir(name) : name \in listing})[u]))

\* the folder the event at position n of the history is about
EvFolder(n) == trace[n].folder

Units == 1..Cardinality(listing)

HasRaw(name) == "raw_file" \in DOMAIN localOps[name]

\* the events of run r for unit u
EventsOf(r, u) == {n \in DOMAIN trace : trace[n].run = r /\ trace[n].k = u}

Did(r, u, kind) == \E n \in EventsOf(r, u) : trace[n].kind = kind /\ trace[n].res = "ok"

Puts(r, u) == {n \in EventsOf(r, u) : trace[n].kind = "put"}

Submitted(r, u) == \E j \in DOMAIN jobs : jobs[j].run = r /\ jobs[j].k = u

\* the name of a folder is the literal prefix followed by decimal digits
WellFormedName(name) ==
    /\ Len(name) > PrefixLen
    /\ SubSeq(name, 1, PrefixLen) = PlaneStr
    /\ \A n \in (PrefixLen + 1)..Len(name) : IsDigit(name[n])

WellFormedInput ==
    \A name \in listing : WellFormedName(name) /\ "fast_disk" \in DOMAIN localOps[name]

\* a forward-slash path at or below the remote root
IsRemotePath(s) ==
    /\ \A n \in 1..Len(s) : s[n] # "\\"
    /\ s = server_root \/ IsPrefix(server_root \o <<"/">>, s)

RawNames == {DataRawBin, DataRawChan2Bin, DataChan2RawBin}
RegNames == {DataBin, DataChan2Bin}

\* the last component of a forward-slash path
BaseName(s) == Last(Components(s, <<>>))

(***************************************************************************)
(* C1: ssh_connect makes at most 30 connection attempts; after 30          *)
(* transient failures in a row it ends in the give-up exit, and a success  *)
(* on an attempt k <= 30 that follows only transient failures returns the  *)
(* connection.                                                             *)
(***************************************************************************)
C1_RetryBound ==
    /\ attempts <= MaxAttempts
    /\ (sleeps = MaxAttempts /\ cpc # "check") => cpc = "gaveup"
    /\ cpc = "gaveup" => (attempts = MaxAttempts /\ lastOutcome = "other")
    /\ lastOutcome = "ok" => (cpc = "connected" /\ attempts = sleeps + 1)
    /\ cpc = "connected" => lastOutcome = "ok"

C1_Witness == cpc = "gaveup" /\ attempts = MaxAttempts /\ sleeps = MaxAttempts

(***************************************************************************)
(* C2: an authentication rejection ends ssh_connect at once: the step that *)
(* meets it neither sleeps nor increments the counter, and no step follows *)
(* it, so no further attempt is made and no connection is returned.        *)
(***************************************************************************)
C2_AuthFatal ==
    [][ /\ cpc # "authfailed"
        /\ (lastOutcome' = "auth" /\ attempts' # attempts)
              => /\ cpc' = "authfailed"
                 /\ i' = i
                 /\ sleeps' = sleeps
                 /\ attempts' = attempts + 1 ]_vars

C2_Witness == cpc = "authfailed" /\ lastOutcome = "auth" /\ attempts = 1 /\ i = 0 /\ sleeps = 0

(***************************************************************************)
(* C3: two runs in a row with no failure of the environment and no remote  *)
(* change in between: for every unit, run 1 creates the directory and      *)
(* uploads the data file and the descriptor, run 2 creates and uploads     *)
(* nothing, and both runs submit a job.                                    *)
(***************************************************************************)
C3_Redispatch ==
    (run = 2 /\ pc \in {"done", "exited"} /\ faults = 0 /\ WellFormedInput)
    => \A u \in Units :
          /\ Did(1, u, "mkdir")
          /\ \E n \in Puts(1, u) : BaseName(trace[n].dst) = OpsNpy /\ trace[n].res = "ok"
          /\ \E n \in Puts(1, u) : BaseName(trace[n].dst) # OpsNpy /\ trace[n].res = "ok"
          /\ ~\E n \in EventsOf(2, u) : trace[n].kind = "mkdir"
          /\ Puts(2, u) = {}
          /\ Submitted(1, u)
          /\ Submitted(2, u)

(***************************************************************************)
(* C4: a stat of the remote working directory that fails with an error     *)
(* other than not-found ends the run: the unit is not marked for copying,  *)
(* and no mkdir and no upload follows in that run.                         *)
(***************************************************************************)
C4_ProbeErrorFatal ==
    \A n \in DOMAIN trace :
        (trace[n].kind = "stat" /\ trace[n].res = "ioerror")
        => /\ \A m \in DOMAIN trace : m > n => trace[m].run # trace[n].run
           /\ (run = trace[n].run => (pc = "exited" /\ ~copy))

(***************************************************************************)
(* C5: the file whose size is taken lies in the unit's local staging       *)
(* directory: data_raw.bin when the descriptor has raw data, data.bin      *)
(* otherwise.                                                              *)
(***************************************************************************)
C5_SizedFileLocal ==
    \A n \in DOMAIN trace :
        trace[n].kind = "getsize"
        => trace[n].src = Staging(EvFolder(n))
                          \o << IF HasRaw(EvFolder(n)) THEN DataRawBin ELSE DataBin >>

(***************************************************************************)
(* C6: a unit whose descriptor has raw data never has a registered-data    *)
(* file uploaded, a unit without raw data never has a raw-data file        *)
(* uploaded, and a secondary-channel file is uploaded only when the        *)
(* descriptor has the key of that channel for the kind chosen.             *)
(***************************************************************************)
C6_Exclusive ==
    \A n \in DOMAIN trace :
        (trace[n].kind = "put" /\ trace[n].k > 0)
        => LET name == EvFolder(n)
               src  == Last(trace[n].src)
               dst  == BaseName(trace[n].dst)
           IN  /\ HasRaw(name) => (src \notin RegNames /\ dst \notin RegNames)
               /\ ~HasRaw(name) => (src \notin RawNames /\ dst \notin RawNames)
               /\ src = DataRawChan2Bin => "raw_file_chan2" \in DOMAIN localOps[name]
               /\ src = DataChan2Bin => "reg_file_chan2" \in DOMAIN localOps[name]

C6_Witness ==
    \E n \in DOMAIN trace :
        /\ trace[n].kind = "put"
        /\ trace[n].res = "ok"
        /\ trace[n].k > 0
        /\ Last(trace[n].src) = DataRawChan2Bin
        /\ "reg_file_chan2" \in DOMAIN localOps[EvFolder(n)]

(***************************************************************************)
(* C7: once a unit's descriptor has been rewritten and saved, every        *)
(* path-valued key it has holds a forward-slash path of the remote         *)
(* namespace.                                                              *)
(***************************************************************************)
PathKeys == {"save_path0", "save_path", "fast_disk", "ops_path", "reg_file",
             "raw_file", "raw_file_chan2", "reg_file_chan2"}

Saved(name) ==
    \E n \in DOMAIN trace : trace[n].kind = "save" /\ trace[n].dst = ops_path_orig(name)

C7_AllPathsRemote ==
    \A name \in listing :
        Saved(name)
        => \A key \in PathKeys \cap DOMAIN localOps[name] : IsRemotePath(localOps[name][key])

(***************************************************************************)
(* C8: a mkdir, upload, home-directory query or submission that fails      *)
(* while unit k is processed ends the run: nothing more is done in that    *)
(* run, no job is submitted for unit k or a later one, and what had been   *)
(* created or uploaded before stays on the remote host.                    *)
(***************************************************************************)
RemovedAfter(n, path) ==
    \E m \in DOMAIN trace :
        /\ m > n
        /\ trace[m].kind = "env_rmdir"
        /\ (trace[m].dst = path \/ IsPrefix(trace[m].dst \o <<"/">>, path))

C8_FailureFatal ==
    /\ \A n \in DOMAIN trace :
         (trace[n].kind \in {"mkdir", "put", "home", "bsub"} /\ trace[n].res = "raise")
         => /\ \A m \in DOMAIN trace : m > n => trace[m].run # trace[n].run
            /\ \A j \in DOMAIN jobs :
                 jobs[j].run = trace[n].run => jobs[j].k < trace[n].k
            /\ run = trace[n].run => pc = "exited"
    /\ \A n \in DOMAIN trace :
         (trace[n].kind = "mkdir" /\ trace[n].res = "ok")
         => (trace[n].dst \in remoteDirs \/ RemovedAfter(n, trace[n].dst))
    /\ \A n \in DOMAIN trace :
         (trace[n].kind = "put" /\ trace[n].res = "ok" /\ trace[n].k > 0)
         => \/ trace[n].dst \in DOMAIN remoteFiles
            \/ trace[n].dst \in DOMAIN remoteOps
            \/ RemovedAfter(n, trace[n].dst)

C8_Witness ==
    \E n \in DOMAIN trace :
        /\ trace[n].kind = "put"
        /\ trace[n].res = "raise"
        /\ trace[n].k = 1
        /\ Cardinality(listing) = 2
        /\ pc = "exited"
        /\ \E m \in DOMAIN trace :
             /\ m < n
             /\ trace[m].run = trace[n].run
             /\ trace[m].kind = "put"
             /\ trace[m].k = 1
             /\ trace[m].res = "ok"
             /\ trace[m].dst \in DOMAIN remoteFiles

(***************************************************************************)
(* C9: nothing is done for a unit whose folder name is not "plane"         *)
(* followed by decimal digits, or whose descriptor has no fast_disk key:   *)
(* no remote operation and no save of its descriptor.                      *)
(***************************************************************************)
C9_MalformedRejected ==
    \A n \in DOMAIN trace :
        trace[n].k > 0
        => /\ WellFormedName(EvFolder(n))
           /\ "fast_disk" \in DOMAIN localOps[EvFolder(n)]

(***************************************************************************)
(* C10: a run that completes has submitted one job per folder, in          *)
(* increasing order of the plane index, each job named by the index of its *)
(* unit and given the remote descriptor path of that unit.                 *)
(***************************************************************************)
JobsOfRun == SelectSeq(jobs, LAMBDA j : j.run = run)

C10_OneJobPerUnitInOrder ==
    pc = "done"
    => /\ Len(JobsOfRun) = Cardinality(listing)
       /\ \A u \in 1..Len(JobsOfRun) :
            LET j == JobsOfRun[u]
            IN  /\ j.folder = UnitFolder(u)
                /\ PyInt(Drop(j.folder, PrefixLen)).val = j.ipl
                /\ j.cmd.J = JobPrefix \o FmtD(j.ipl)
                /\ j.cmd.o = OutPrefix \o FmtD(j.ipl) \o TxtSuffix
                /\ j.cmd.e = ErrorPrefix \o FmtD(j.ipl) \o LogSuffix
                /\ j.cmd.log = LogPrefix \o FmtD(j.ipl) \o TxtSuffix
                /\ j.cmd.arg = server_root \o <<"/", "e", "/">> \o PlaneStr \o FmtD(j.ipl)
                                \o <<"/">> \o OpsNpy
                /\ u > 1 => JobsOfRun[u - 1].ipl < j.ipl

(***************************************************************************)
(* C11: no step removes a key from a descriptor file, no step adds one of  *)
(* the optional keys, and a step changes the value of no key other than    *)
(* the ones send_jobs rewrites: save_path0, save_folder, save_path,        *)
(* fast_disk, ops_path, reg_file, raw_file, raw_file_chan2 and             *)
(* reg_file_chan2.                                                         *)
(***************************************************************************)
AlwaysRewritten == {"save_path0", "save_folder", "save_path", "fast_disk", "ops_path",
                    "reg_file"}

RewrittenKeys == AlwaysRewritten \cup {"raw_file", "raw_file_chan2", "reg_file_chan2"}

C11_SaveFrame ==
    [][ \A name \in DOMAIN localOps :
          LET old == localOps[name]
              new == localOps'[name]
          IN  /\ DOMAIN old \subseteq DOMAIN new
              /\ (DOMAIN new \ DOMAIN old) \subseteq AlwaysRewritten
              /\ \A key \in DOMAIN old \ RewrittenKeys : new[key] = old[key] ]_vars

C11_Witness ==
    \E name \in listing :
        /\ Saved(name)
        /\ HasRaw(name)
        /\ "reg_file_chan2" \in DOMAIN localOps[name]
        /\ localOps[name]["functional_chan"] = <<"1">>
        /\ localOps[name]["fast_disk"] # Str(Staging(name))
        /\ localOps[name]["raw_file"] # Str(Staging(name) \o <<DataRawBin>>)

(***************************************************************************)
(* C12: when the components of local_root are a prefix of the components   *)
(* of save_folder, the remote save folder is the components of server_root *)
(* followed by the components of save_folder after local_root, and putting *)
(* local_root back in the place of server_root gives save_folder again,    *)
(* component for component.                                                *)
(***************************************************************************)
UnderLocalRoot == IsPrefix(Parts(local_root), Parts(save_folder))

C12_RoundTrip ==
    UnderLocalRoot
    => /\ IsPrefix(Parts(server_root), save_folder_server)
       /\ Drop(save_folder_server, Len(Parts(server_root)))
            = Drop(Parts(save_folder), Len(Parts(local_root)))
       /\ Parts(local_root) \o Drop(save_folder_server, Len(Parts(server_root)))
            = Parts(save_folder)
       /\ Parts(Str(Parts(local_root) \o Drop(save_folder_server, Len(Parts(server_root)))))
            = Parts(save_folder)

C12_Witness ==
    /\ pc = "stat"
    /\ os_sep = "\\"
    /\ UnderLocalRoot
    /\ Len(Parts(local_root)) = 3
    /\ Len(Parts(save_folder)) = 5
    /\ Len(Parts(server_root)) = 3

(***************************************************************************)
(* C18: with save_folder at or below local_root, the base path and the     *)
(* folder name written into a unit's descriptor join to the remote save    *)
(* folder (server_root followed by the components of save_folder after     *)
(* local_root), and the unit's remote working directory is that folder     *)
(* joined with "plane" and the plane index; the case save_folder =         *)
(* local_root, where the remote save folder is server_root itself, is      *)
(* included.                                                               *)
(***************************************************************************)
RemoteSaveFolder == Parts(server_root) \o Drop(Parts(save_folder), Len(Parts(local_root)))

C18_BasePathJoin ==
    (pc = "stat" /\ UnderLocalRoot)
    => /\ unix_path(Parts(op["save_path0"]) \o <<op["save_folder"]>>)
            = unix_path(RemoteSaveFolder)
       /\ op["save_path"] = unix_path(RemoteSaveFolder \o <<PlaneStr \o FmtD(ipl)>>)

(***************************************************************************)
(* C13: with a multiplier that is not negative, of two jobs the one        *)
(* submitted for the smaller file never carries the larger memory value in *)
(* its command.                                                            *)
(***************************************************************************)
MemOf(j) == PyInt(j.cmd.M).val

C13_MemMonotone ==
    mem_request_multiplier.num >= 0
    => \A a \in DOMAIN jobs : \A b \in DOMAIN jobs :
          jobs[a].bytes < jobs[b].bytes => MemOf(jobs[a]) <= MemOf(jobs[b])

C13_Witness ==
    /\ mem_request_multiplier = [num |-> 3, den |-> 2]
    /\ Len(jobs) = 2
    /\ jobs[1].bytes = BytesPerMB - 1
    /\ jobs[2].bytes = BytesPerMB + 1
    /\ MemOf(jobs[1]) = 1
    /\ MemOf(jobs[2]) = 1

(***************************************************************************)
(* C14: at the moment a job has been submitted, the descriptor file it was *)
(* given exists on the remote host and its content is the descriptor just  *)
(* saved locally for that unit.                                            *)
(***************************************************************************)
C14_RemoteDescriptorCurrent ==
    (trace # <<>> /\ Last(trace).kind = "bsub" /\ Last(trace).res = "ok")
    => LET j == Last(jobs)
       IN  /\ j.cmd.arg \in DOMAIN remoteOps
           /\ remoteOps[j.cmd.arg] = localOps[j.folder]

(***************************************************************************)
(* C15: when run 1 created a unit's remote working directory and then      *)
(* failed in one of that unit's uploads, a run 2 that meets no failure of  *)
(* the remote host and no change of the remote file system finds the       *)
(* directory, creates and uploads nothing for the unit, and submits a job  *)
(* for it.                                                                 *)
(***************************************************************************)
FailedInUploads(r, u) ==
    /\ Did(r, u, "mkdir")
    /\ \E n \in Puts(r, u) : trace[n].res = "raise"

Undisturbed(r) ==
    \A n \in DOMAIN trace :
        /\ trace[n].kind # "env_rmdir"
        /\ (trace[n].run = r /\ trace[n].kind # "getsize") => trace[n].res = "ok"

C15_PartialCopyGap ==
    (run = 2 /\ pc \in {"done", "exited"} /\ WellFormedInput /\ Undisturbed(2))
    => \A u \in Units :
          FailedInUploads(1, u)
          => /\ \E n \in EventsOf(2, u) : trace[n].kind = "stat" /\ trace[n].res = "ok"
             /\ ~\E n \in EventsOf(2, u) : trace[n].kind = "mkdir"
             /\ Puts(2, u) = {}
             /\ Submitted(2, u)

(***************************************************************************)
(* C16: the operations of a unit come in one order.  The first is the      *)
(* probe of the working directory; a mkdir comes directly after a probe    *)
(* that reported the directory absent; every upload of the unit comes      *)
(* after a successful mkdir of the same unit and run; the upload of the    *)
(* descriptor comes directly after its local save; the submission comes    *)
(* after every upload of the unit; and the first operation of a unit comes *)
(* directly after the accepted submission of the unit before it.           *)
(***************************************************************************)
SameUnit(m, n) == trace[m].run = trace[n].run /\ trace[m].k = trace[n].k

\* position n is the first operation of its unit in its run
FirstOfUnit(n) == n = 1 \/ ~SameUnit(n - 1, n)

C16_UnitOrder ==
    \A n \in DOMAIN trace :
        trace[n].k > 0
        => /\ FirstOfUnit(n) <=> trace[n].kind = "stat"
           /\ (FirstOfUnit(n) /\ trace[n].k > 1)
                 => /\ trace[n - 1].run = trace[n].run
                    /\ trace[n - 1].k = trace[n].k - 1
                    /\ trace[n - 1].kind = "bsub"
                    /\ trace[n - 1].res = "ok"
           /\ trace[n].kind = "mkdir"
                 => /\ SameUnit(n - 1, n)
                    /\ trace[n - 1].kind = "stat"
                    /\ trace[n - 1].res = "enoent"
           /\ trace[n].kind = "put"
                 => \E m \in 1..(n - 1) :
                       /\ SameUnit(m, n)
                       /\ trace[m].kind = "mkdir"
                       /\ trace[m].res = "ok"
           /\ (trace[n].kind = "put" /\ BaseName(trace[n].dst) = OpsNpy)
                 => /\ SameUnit(n - 1, n)
                    /\ trace[n - 1].kind = "save"
           /\ trace[n].kind = "bsub"
                 => \A m \in DOMAIN trace :
                       (SameUnit(m, n) /\ trace[m].kind \in {"stat", "mkdir", "put", "save"})
                       => m < n

(***************************************************************************)
(* C17: in every run the connection is made once, as the first operation,  *)
(* and nothing else happens unless it succeeded; the sub-channel is opened *)
(* once and the bootstrap script uploaded once, both before any operation  *)
(* of a unit; the two closes happen at most once each, the sub-channel     *)
(* first and the connection directly after it, as the last operations of   *)
(* the run and after every submission; and a run that has submitted a job  *)
(* for every unit and is over has closed both.                             *)
(***************************************************************************)
RunTrace(r) == SelectSeq(trace, LAMBDA e : e.run = r)

Count(t, kind) == Cardinality({p \in DOMAIN t : t[p].kind = kind})

RunOver(r) == r < run \/ pc \in {"done", "exited"}

SameRun(m, n) == trace[m].run = trace[n].run

FirstOfRun(n) == n = 1 \/ ~SameRun(n - 1, n)

LastOfRun(n) == n = Len(trace) \/ ~SameRun(n + 1, n)

\* an operation of the same run and of the given kind succeeded before position n
DoneBefore(n, kind) ==
    \E q \in 1..(n - 1) : SameRun(q, n) /\ trace[q].kind = kind /\ trace[q].res = "ok"

OncePerRun == {"connect", "open_sftp", "put_script", "close_sftp", "close_ssh"}

\* what C17 asks of the operation at position n when it belongs to a unit
UnitOpInOrder(n) ==
    IF trace[n].kind = "stat"
    THEN /\ DoneBefore(n, "connect")
         /\ DoneBefore(n, "open_sftp")
         /\ DoneBefore(n, "put_script")
    ELSE SameRun(n - 1, n) /\ trace[n - 1].k = trace[n].k

\* what C17 asks of the operation at position n when it belongs to no unit
RunOpInOrder(n) ==
    /\ FirstOfRun(n) <=> trace[n].kind = "connect"
    /\ trace[n].kind \in OncePerRun
          => ~\E q \in 1..(n - 1) : SameRun(q, n) /\ trace[q].kind = trace[n].kind
    /\ (FirstOfRun(n) /\ ~LastOfRun(n)) => trace[n].res = "ok"
    /\ trace[n].kind = "put_script" => trace[n - 1].kind = "open_sftp"
    /\ trace[n].kind = "close_sftp"
          => /\ \A q \in (n + 1)..Len(trace) : SameRun(q, n) => trace[q].kind = "close_ssh"
             /\ ~LastOfRun(n) => trace[n + 1].kind = "close_ssh"
    /\ trace[n].kind = "close_ssh"
          => /\ LastOfRun(n)
             /\ \A q \in (n + 1)..Len(trace) : ~SameRun(q, n)
             /\ SameRun(n - 1, n)
             /\ trace[n - 1].kind = "close_sftp"

C17_ConnectionLifecycle ==
    /\ \A r \in 1..run : \E n \in DOMAIN trace : trace[n].run = r
    /\ \A n \in DOMAIN trace :
         IF trace[n].run = 0 THEN TRUE
         ELSE IF trace[n].k > 0 THEN UnitOpInOrder(n)
         ELSE RunOpInOrder(n)
    /\ \A r \in 1..run :
         (RunOver(r) /\ \A u \in Units : Submitted(r, u))
         => \E n \in DOMAIN trace :
               /\ trace[n].run = r
               /\ trace[n].kind = "close_ssh"
               /\ trace[n - 1].kind = "close_sftp"
               /\ trace[n - 2].kind = "bsub"
               /\ trace[n - 2].run = r

C17_Witness ==
    /\ run = 2
    /\ pc = "done"
    /\ Cardinality(listing) = 2
    /\ \A r \in 1..2 : \A u \in Units : Submitted(r, u)
    /\ Count(RunTrace(1), "close_ssh") = 1
    /\ Count(RunTrace(2), "close_ssh") = 1

(***************************************************************************)
(* C19: whatever the outcomes of the attempts, ssh_connect ends: from some *)
(* point on it is in one of the final positions connected, authfailed and  *)
(* gaveup, and no step leads from a final position to another position.    *)
(***************************************************************************)
FinalStates == {"connected", "authfailed", "gaveup"}

C19_Terminates ==
    /\ <>[](cpc \in FinalStates)
    /\ [][ (cpc \in FinalStates) => (cpc' = cpc) ]_vars

C19_Witness ==
    /\ cpc = "authfailed"
    /\ lastOutcome = "auth"
    /\ sleeps = MaxAttempts - 1
    /\ attempts = MaxAttempts

(***************************************************************************)
(* C20: in every run the local file given to an upload of a unit's data    *)
(* lies in the staging directory the pipeline wrote for that unit.         *)
(***************************************************************************)
C20_UploadFromStaging ==
    \A n \in DOMAIN trace :
        (trace[n].kind = "put" /\ trace[n].k > 0 /\ BaseName(trace[n].dst) # OpsNpy)
        => IsPrefix(Staging(EvFolder(n)), trace[n].src)

====
